---- MODULE Spec2Model ----
(***************************************************************************)
(* grid-gen: GridCollection::to_svg and cos_sin_degrees (src/main.rs).     *)
(*                                                                         *)
(* f64 values are modelled as exact rationals <<n, d>> in lowest terms     *)
(* with d > 0, so the arithmetic of the projection is the real-number      *)
(* arithmetic the code approximates; rounding of f64 results (of          *)
(* rem_euclid, of sums and products) is not modelled.  Option<T> is        *)
(* modelled as a sequence of length 0 (None) or 1 (Some).                  *)
(*                                                                         *)
(* to_svg fails by panicking.  result names the assertion that failed:     *)
(* "InvalidViewport" for the assert!s on the effective bounds (lines       *)
(* 45-56), "InvalidGrid" for assert_ne!(step, 0.0) (line 85) and           *)
(* "AssertionFailed" for the assert!s of lines 103, 123 and 179; "ok" is   *)
(* the return of the document.                                             *)
(***************************************************************************)
EXTENDS Integers, Sequences, FiniteSets, TLC

VARIABLES bounds, clip, stroke, stroke_width, grids,
          pc, idx, document, main_group, locals, result

vars == <<bounds, clip, stroke, stroke_width, grids,
          pc, idx, document, main_group, locals, result>>

(***************************************************************************)
(* Bounds of the model.                                                    *)
(***************************************************************************)
\* longest grid list of a collection (specification Spec)
MaxGrids == 2
\* full turns added to or taken from a base angle (specification SpecGeom)
MaxTurns == 1
\* largest multiple of the step unit used as a grid step (SpecGeom)
MaxStepMul == 2

(***************************************************************************)
(* Rational arithmetic standing for f64 arithmetic.                        *)
(***************************************************************************)
RECURSIVE GCD(_, _)
GCD(a, b) == IF b = 0 THEN a ELSE GCD(b, a % b)

IAbs(n) == IF n < 0 THEN -n ELSE n

RReduce(n, d, g) == IF d < 0 THEN <<(-n) \div g, (-d) \div g>> ELSE <<n \div g, d \div g>>

RNorm(n, d) == RReduce(n, d, GCD(IAbs(n), IAbs(d)))

RInt(n) == <<n, 1>>

RAdd(a, b) == RNorm(a[1] * b[2] + b[1] * a[2], a[2] * b[2])

RNeg(a) == <<-a[1], a[2]>>

RSub(a, b) == RAdd(a, RNeg(b))

RMul(a, b) == RNorm(a[1] * b[1], a[2] * b[2])

RDiv(a, b) == RNorm(a[1] * b[2], a[2] * b[1])

RAbs(a) == <<IAbs(a[1]), a[2]>>

RLt(a, b) == a[1] * b[2] < b[1] * a[2]

RLe(a, b) == a[1] * b[2] <= b[1] * a[2]

RMax(a, b) == IF RLt(a, b) THEN b ELSE a

RMin(a, b) == IF RLt(b, a) THEN b ELSE a

\* f64::rem_euclid: the non-negative remainder
rem_euclid(a, m) == RNorm(a[1] % (m * a[2]), a[2])

\* `x as i64` under a mistaken rounding-down conversion
AsI64_floor(a) == a[1] \div a[2]

\* `x as i64`: conversion to integer truncates toward zero
AsI64(a) == IF a[1] >= 0 THEN a[1] \div a[2] ELSE -((-a[1]) \div a[2])

None == <<>>
Some(v) == <<v>>
IsSome(o) == Len(o) = 1
Unwrap(o) == o[1]


(***************************************************************************)
(* Data: Rect and Grid values.                                             *)
(***************************************************************************)
Rect(a, b, c, d) ==
    [min_x |-> RInt(a), max_x |-> RInt(b), min_y |-> RInt(c), max_y |-> RInt(d)]

Grid(cx, cy, step, cp, theta, st, sw) ==
    [cx |-> cx, cy |-> cy, step |-> step, center_position |-> cp,
     theta |-> theta, stroke |-> st, stroke_width |-> sw]

\* std::f64::consts::FRAC_1_SQRT_2, to the precision 70/99 = 0.70707...
FRAC_1_SQRT_2 == <<70, 99>>

(***************************************************************************)
(* cos_sin_degrees and the steps of one iteration of the grid loop.        *)
(***************************************************************************)
\* theta.to_radians() followed by cos() and sin(), on the angles whose
\* cosine and sine are the rationals of the 3-4-5 triangle (to 1e-6)
RadCosSin(theta) ==
    CASE theta = <<3687, 100>>  -> <<<<4, 5>>, <<3, 5>>>>
      [] theta = <<5313, 100>>  -> <<<<3, 5>>, <<4, 5>>>>
      [] theta = <<12687, 100>> -> <<<<-3, 5>>, <<4, 5>>>>
      [] theta = <<14313, 100>> -> <<<<-4, 5>>, <<3, 5>>>>

\* the range check at the head of cos_sin_degrees
InHalfTurn(theta) == RLe(RInt(0), theta) /\ RLt(theta, RInt(180))

cos_sin_degrees(theta) ==
    IF theta = RInt(0) THEN <<RInt(1), RInt(0)>>
    ELSE IF theta = RInt(45) THEN <<FRAC_1_SQRT_2, FRAC_1_SQRT_2>>
    ELSE IF theta = RInt(90) THEN <<RInt(0), RInt(1)>>
    ELSE IF theta = RInt(135) THEN <<RNeg(FRAC_1_SQRT_2), FRAC_1_SQRT_2>>
    ELSE RadCosSin(theta)

\* if theta >= 180.0 { theta -= 180.0; step = -step; }
Fold(t, step) ==
    IF RLe(RInt(180), t) THEN <<RSub(t, RInt(180)), RNeg(step)>> ELSE <<t, step>>

Fold_keep(t, step) ==
    IF RLe(RInt(180), t) THEN <<RSub(t, RInt(180)), step>> ELSE <<t, step>>

\* the angle is reduced and never folded: the step keeps its sign
NormalizeAngle_nofold(theta, step) == Fold_keep(rem_euclid(theta, 360), step)

\* theta.rem_euclid(360.0), then the half turn folded into the step's sign
NormalizeAngle(theta, step) == Fold(rem_euclid(theta, 360), step)

\* cx = grid.cx - cos * step * grid.center_position (and cy with sin)
CenterLine(c, trig, step, cp) == RSub(c, RMul(RMul(trig, step), cp))

\* (45.0..135.0).contains(&theta): more horizontal than vertical
IsHorizontal(theta) == RLe(RInt(45), theta) /\ RLt(theta, RInt(135))

\* the projection with the slope left out
Intercept_noslope(c, ratio, other, edge) == RAdd(c, RSub(other, edge))

\* y0 = cy + cot * (cx - bounds.min_x), and likewise y1, x0, x1
Intercept(c, ratio, other, edge) == RAdd(c, RMul(ratio, RSub(other, edge)))

\* the spacing with the absolute value left out
Spacing_signed(step, trig) == RDiv(step, trig)

\* dy = (step / sin).abs(), dx = (step / cos).abs()
Spacing(step, trig) == RAbs(RDiv(step, trig))

\* the quotient taken from the nearer intercept instead of the farther one
LowQuotient_min(edge, p0, p1, dp) == RDiv(RSub(edge, RMin(p0, p1)), dp)

\* (bounds.min_y - y0.max(y1)) / dy
LowQuotient(edge, p0, p1, dp) == RDiv(RSub(edge, RMax(p0, p1)), dp)

\* (bounds.max_y - y0.min(y1)) / dy
HighQuotient(edge, p0, p1, dp) == RDiv(RSub(edge, RMin(p0, p1)), dp)

\* the lower index with floor(q) - 1 in place of the truncation
MinIdx_floor(q) == AsI64_floor(q) - 1

\* (q - 1.0) as i64
MinIdx(q) == AsI64(RSub(q, RInt(1)))

\* (q + 1.0) as i64
MaxIdx(q) == AsI64(RAdd(q, RInt(1)))

\* the locals of an iteration in which an assert! fails
AssertFailed(theta, step) == [asserts |-> FALSE, theta |-> theta, step |-> step]

\* min_idx and max_idx, and the locals the loop over i reads
LocalsIdx(hor, theta, step, cos, sin, cx, cy, p0, p1, dp, qlo, qhi) ==
    [asserts |-> TRUE, theta |-> theta, step |-> step,
     cos |-> cos, sin |-> sin, cx |-> cx, cy |-> cy,
     horizontal |-> hor, p0 |-> p0, p1 |-> p1, dp |-> dp,
     qlo |-> qlo, qhi |-> qhi,
     min_idx |-> MinIdx(qlo), max_idx |-> MaxIdx(qhi)]

\* the two quotients the index range is cut from
LocalsRange(hor, theta, step, cos, sin, cx, cy, p0, p1, dp, lo, hi) ==
    LocalsIdx(hor, theta, step, cos, sin, cx, cy, p0, p1, dp,
              LowQuotient(lo, p0, p1, dp), HighQuotient(hi, p0, p1, dp))

\* more horizontal than vertical: y0, y1 on the min_x and max_x lines, dy
HorizontalBranch(vp, theta, step, cos, sin, cx, cy, cot) ==
    LocalsRange(TRUE, theta, step, cos, sin, cx, cy,
                Intercept(cy, cot, cx, vp.min_x), Intercept(cy, cot, cx, vp.max_x),
                Spacing(step, sin), vp.min_y, vp.max_y)

\* more vertical than horizontal: x0, x1 on the min_y and max_y lines, dx
VerticalBranch(vp, theta, step, cos, sin, cx, cy, tan) ==
    LocalsRange(FALSE, theta, step, cos, sin, cx, cy,
                Intercept(cx, tan, cy, vp.min_y), Intercept(cx, tan, cy, vp.max_y),
                Spacing(step, cos), vp.min_x, vp.max_x)

\* the axis selection, each branch behind its assert!
LocalsAxis(vp, theta, step, cos, sin, cx, cy) ==
    IF IsHorizontal(theta)
    THEN IF RLt(sin, FRAC_1_SQRT_2) THEN AssertFailed(theta, step)
         ELSE HorizontalBranch(vp, theta, step, cos, sin, cx, cy, RDiv(cos, sin))
    ELSE IF RLt(RAbs(cos), FRAC_1_SQRT_2) THEN AssertFailed(theta, step)
         ELSE VerticalBranch(vp, theta, step, cos, sin, cx, cy, RDiv(sin, cos))

\* (cos, sin) and the corrected center (cx, cy)
LocalsTrig(grid, vp, theta, step, cs) ==
    LocalsAxis(vp, theta, step, cs[1], cs[2],
               CenterLine(grid.cx, cs[1], step, grid.center_position),
               CenterLine(grid.cy, cs[2], step, grid.center_position))

\* the normalized (theta, step), then cos_sin_degrees behind its range assert!
LocalsNorm(grid, vp, ns) ==
    IF ~InHalfTurn(ns[1]) THEN AssertFailed(ns[1], ns[2])
    ELSE LocalsTrig(grid, vp, ns[1], ns[2], cos_sin_degrees(ns[1]))

\* the local variables of one iteration of `for grid in &self.grids`
Locals(grid, vp) == LocalsNorm(grid, vp, NormalizeAngle(grid.theta, grid.step))

\* the Line appended for index i
LineOffset(l, vp, off) ==
    IF l.horizontal
    THEN [x1 |-> vp.min_x, x2 |-> vp.max_x,
          y1 |-> RAdd(l.p0, off), y2 |-> RAdd(l.p1, off)]
    ELSE [x1 |-> RAdd(l.p0, off), x2 |-> RAdd(l.p1, off),
          y1 |-> vp.min_y, y2 |-> vp.max_y]

LineAt(l, vp, i) == LineOffset(l, vp, RMul(l.dp, RInt(i)))

\* for i in min_idx..=max_idx { group.append(Line ...) }
Lines(l, vp) ==
    IF l.max_idx < l.min_idx THEN <<>>
    ELSE [k \in 1..(l.max_idx - l.min_idx + 1) |-> LineAt(l, vp, l.min_idx + k - 1)]

\* the per-grid stroke override dropped
GroupStroke_dropped(grid) == None

\* if let Some(stroke) = &grid.stroke { group.assign("stroke", ...) }
GroupStroke(grid) == grid.stroke

\* if let Some(width) = grid.stroke_width { group.assign("stroke-width", width) }
GroupStrokeWidth(grid) == grid.stroke_width

NewGroup(grid, lines) ==
    [clip_path |-> "url(#viewable-area)", stroke |-> GroupStroke(grid),
     stroke_width |-> GroupStrokeWidth(grid), lines |-> lines]

\* the group of one grid, or the failure of one of its assert!s
Projected(grid, vp, l) ==
    IF ~l.asserts THEN [status |-> "AssertionFailed"]
    ELSE [status |-> "ok", local |-> l, group |-> NewGroup(grid, Lines(l, vp))]

\* the loop body where a zero step skips the grid instead of aborting
LoopBody_skip(grid, vp) ==
    IF grid.step = RInt(0)
    THEN [status |-> "ok", local |-> [asserts |-> TRUE, skipped |-> TRUE],
          group |-> NewGroup(grid, <<>>)]
    ELSE Projected(grid, vp, Locals(grid, vp))

\* one iteration of the grid loop: assert_ne!(step, 0.0), then the projection
LoopBody(grid, vp) ==
    IF grid.step = RInt(0) THEN [status |-> "InvalidGrid"]
    ELSE Projected(grid, vp, Locals(grid, vp))

\* the clip rectangle ignored
EffectiveBounds_noclip(b, c) == b

\* let bounds = self.clip.unwrap_or(self.bounds)
EffectiveBounds(b, c) == IF IsSome(c) THEN Unwrap(c) ELSE b

\* the two assert!s on the effective bounds
ValidRect(r) == RLt(r.min_x, r.max_x) /\ RLt(r.min_y, r.max_y)

\* svg::Document::new().set("viewBox", ...).add(Definitions ... ClipPath ... Rectangle)
NewDocument(b, eff) ==
    [viewBox |-> <<b.min_x, b.min_y, RSub(b.max_x, b.min_x), RSub(b.max_y, b.min_y)>>,
     clip_path |-> [id |-> "viewable-area", x |-> eff.min_x, y |-> eff.min_y,
                    width |-> RSub(eff.max_x, eff.min_x),
                    height |-> RSub(eff.max_y, eff.min_y)],
     body |-> None]

\* Group::new().set("stroke", self.stroke.as_deref().unwrap_or("black")), then stroke-width
NewMainGroup(st, sw) ==
    [stroke |-> IF IsSome(st) THEN Unwrap(st) ELSE "black",
     stroke_width |-> sw, children |-> <<>>]

\* the group put in front of the earlier ones
AppendGroup_front(children, group) == <<group>> \o children

\* main_group.append(group)
AppendGroup(children, group) == Append(children, group)

(***************************************************************************)
(* Actions: the three stages of GridCollection::to_svg.                    *)
(***************************************************************************)
\* the effect of the first stage on the effective bounds eff
BeginWith(eff) ==
    IF ValidRect(eff)
    THEN /\ document' = Some(NewDocument(bounds, eff))
         /\ main_group' = Some(NewMainGroup(stroke, stroke_width))
         /\ pc' = "loop"
         /\ idx' = 1
         /\ UNCHANGED result
    ELSE /\ pc' = "panic"
         /\ result' = "InvalidViewport"
         /\ UNCHANGED <<document, main_group, idx>>

\* lines 44-81: the assertions on the effective bounds, the document and main group
Begin ==
    /\ pc = "start"
    /\ BeginWith(EffectiveBounds(bounds, clip))
    /\ UNCHANGED <<bounds, clip, stroke, stroke_width, grids, locals>>

\* the effect of one iteration with outcome r: the group appended, or the panic
GridStepWith(r) ==
    IF r.status = "ok"
    THEN /\ main_group' = Some([Unwrap(main_group) EXCEPT
                                !.children = AppendGroup(@, r.group)])
         /\ locals' = Append(locals, r.local)
         /\ idx' = idx + 1
         /\ UNCHANGED <<pc, result>>
    ELSE /\ pc' = "panic"
         /\ result' = r.status
         /\ UNCHANGED <<main_group, locals, idx>>

\* lines 82-143: one iteration of the loop over self.grids
GridStep ==
    /\ pc = "loop"
    /\ idx <= Len(grids)
    /\ GridStepWith(LoopBody(grids[idx], EffectiveBounds(bounds, clip)))
    /\ UNCHANGED <<bounds, clip, stroke, stroke_width, grids, document>>

\* line 144: document.add(main_group) is returned
Return ==
    /\ pc = "loop"
    /\ idx > Len(grids)
    /\ document' = Some([Unwrap(document) EXCEPT !.body = main_group])
    /\ pc' = "done"
    /\ result' = "ok"
    /\ UNCHANGED <<bounds, clip, stroke, stroke_width, grids, main_group, locals, idx>>

Next == Begin \/ GridStep \/ Return

(***************************************************************************)
(* Inputs of specification Spec: whole collections, with styling, clip     *)
(* rectangles, invalid rectangles and zero steps.                          *)
(***************************************************************************)
SeqsUpTo(S, n) == UNION {[1..k -> S] : k \in 0..n}

RectPool ==
    {Rect(0, 100, 0, 100), Rect(20, 60, 10, 50),
     Rect(100, 0, 0, 100), Rect(0, 100, 50, 50)}

ExampleGrid == Grid(RInt(50), RInt(50), RInt(20), RInt(0), RInt(0), None, None)

GridPool ==
    {ExampleGrid,
     Grid(RInt(30), RInt(40), RInt(-30), <<1, 4>>, RInt(90), Some("blue"), None),
     Grid(RInt(50), RInt(50), RInt(20), <<1, 2>>, RInt(45), None, Some(RInt(3))),
     Grid(RInt(10), RInt(70), RInt(30), RInt(0), <<23313, 100>>, Some("green"), Some(RInt(1))),
     Grid(RInt(50), RInt(50), RInt(0), RInt(0), RInt(135), None, None),
     Grid(RInt(50), RInt(50), RInt(0), <<1, 4>>, RInt(270), Some("blue"), None)}

Init ==
    /\ bounds \in RectPool
    /\ clip \in {None} \cup {Some(r) : r \in RectPool}
    /\ stroke \in {None, Some("red")}
    /\ stroke_width \in {None, Some(RInt(2))}
    /\ grids \in SeqsUpTo(GridPool, MaxGrids)
    /\ pc = "start"
    /\ idx = 0
    /\ document = None
    /\ main_group = None
    /\ locals = <<>>
    /\ result = "running"

Spec == Init /\ [][Next]_vars

(***************************************************************************)
(* Inputs of specification SpecGeom: one grid drawn from a wide product of *)
(* angles, steps, offsets and centers, followed by its half-turn partner   *)
(* (theta + 180, -step) or by its negated-step partner (theta, -step).     *)
(***************************************************************************)
BaseThetas ==
    {RInt(0), RInt(45), RInt(90), RInt(135),
     <<3687, 100>>, <<5313, 100>>, <<12687, 100>>, <<14313, 100>>}

Thetas ==
    {RAdd(b, RInt(180 * h + 360 * k)) :
        b \in BaseThetas, h \in {0, 1}, k \in (-MaxTurns)..MaxTurns}

Steps == {RInt(10 * k) : k \in (-MaxStepMul)..MaxStepMul}

CenterPositions == {RInt(0), <<1, 4>>, <<1, 2>>}

Centers == {<<RInt(50), RInt(50)>>, <<RInt(-15), RInt(130)>>}

GeomRects == {Rect(0, 100, 0, 100), Rect(20, 60, 10, 50), Rect(0, 100, 50, 50)}

GeomGrids ==
    {Grid(c[1], c[2], s, cp, t, None, None) :
        c \in Centers, s \in Steps, cp \in CenterPositions, t \in Thetas}

HalfTurn(g) == [g EXCEPT !.theta = RAdd(@, RInt(180)), !.step = RNeg(@)]

Negated(g) == [g EXCEPT !.step = RNeg(@)]

InitGeom ==
    /\ bounds \in GeomRects
    /\ clip = None
    /\ stroke = None
    /\ stroke_width = None
    /\ \E g \in GeomGrids : grids \in {<<g, HalfTurn(g)>>, <<g, Negated(g)>>}
    /\ pc = "start"
    /\ idx = 0
    /\ document = None
    /\ main_group = None
    /\ locals = <<>>
    /\ result = "running"

SpecGeom == InitGeom /\ [][Next]_vars

(***************************************************************************)
(* Vocabulary of the properties.                                           *)
(***************************************************************************)
RFloor(a) == a[1] \div a[2]
RCeil(a) == -((-a[1]) \div a[2])
IsIntegral(a) == a[2] = 1

\* the rectangle the spec calls the effective viewport
Viewport == IF clip # None THEN clip[1] ELSE bounds

RectInvariant(r) == RLt(r.min_x, r.max_x) /\ RLt(r.min_y, r.max_y)

Terminated == pc \in {"done", "panic"}

Children == IF main_group = None THEN <<>> ELSE main_group[1].children

\* the document handed to the caller, if any
Returned == IF result = "ok" THEN document ELSE None

HasZeroStep == \E k \in 1..Len(grids) : grids[k].step = RInt(0)

LineSet(k) == {Children[k].lines[j] : j \in 1..Len(Children[k].lines)}

\* the viewport edges the index range of iteration k is measured against
LowEdge(k) == IF locals[k].horizontal THEN Viewport.min_y ELSE Viewport.min_x
HighEdge(k) == IF locals[k].horizontal THEN Viewport.max_y ELSE Viewport.max_x

\* the quotients (edge - intercept) / spacing of iteration k, from its intercepts
QLow(k) == RDiv(RSub(LowEdge(k), RMax(locals[k].p0, locals[k].p1)), locals[k].dp)
QHigh(k) == RDiv(RSub(HighEdge(k), RMin(locals[k].p0, locals[k].p1)), locals[k].dp)

\* line i of the family of iteration k crosses the viewport
Crosses(k, i) ==
    /\ RLe(LowEdge(k), RAdd(RMax(locals[k].p0, locals[k].p1), RMul(locals[k].dp, RInt(i))))
    /\ RLe(RAdd(RMin(locals[k].p0, locals[k].p1), RMul(locals[k].dp, RInt(i))), HighEdge(k))

\* the segment of line i of iteration k
SegmentOf(k, i) ==
    IF locals[k].horizontal
    THEN [x1 |-> Viewport.min_x, x2 |-> Viewport.max_x,
          y1 |-> RAdd(locals[k].p0, RMul(locals[k].dp, RInt(i))),
          y2 |-> RAdd(locals[k].p1, RMul(locals[k].dp, RInt(i)))]
    ELSE [x1 |-> RAdd(locals[k].p0, RMul(locals[k].dp, RInt(i))),
          x2 |-> RAdd(locals[k].p1, RMul(locals[k].dp, RInt(i))),
          y1 |-> Viewport.min_y, y2 |-> Viewport.max_y]

IsHalfTurnPair ==
    /\ Len(grids) = 2
    /\ grids[1].step # RInt(0)
    /\ grids[2] = [grids[1] EXCEPT !.theta = RAdd(@, RInt(180)), !.step = RNeg(@)]

IsNegatedPair ==
    /\ Len(grids) = 2
    /\ grids[1].step # RInt(0)
    /\ grids[2] = [grids[1] EXCEPT !.step = RNeg(@)]

(***************************************************************************)
(* C1  Rect invariant enforcement.                                         *)
(***************************************************************************)
\* C1: once to_svg has passed its first stage, a collection whose bounds, or
\* whose clip when present, has min >= max on an axis has failed with
\* InvalidViewport: nothing was built, no grid was projected and no document
\* is returned.
C1_RectInvariantEnforced ==
    (pc # "start" /\ (~RectInvariant(bounds) \/ (clip # None /\ ~RectInvariant(clip[1]))))
        => /\ result = "InvalidViewport"
           /\ document = None
           /\ main_group = None
           /\ locals = <<>>

(***************************************************************************)
(* C2  Zero-step rejection.                                                *)
(***************************************************************************)
\* C2 (as stated): when the run has ended and some grid of the list has
\* step = 0, the run failed with InvalidGrid and returned no document.
C2_ZeroStepAlwaysInvalidGrid ==
    (Terminated /\ HasZeroStep) => (result = "InvalidGrid" /\ Returned = None)

\* C2 (amended): when the run has ended and some grid of the list has
\* step = 0, no document is returned and the body of the document was never
\* attached; the failure is InvalidGrid when the effective viewport satisfies
\* the Rect invariant and InvalidViewport when it does not.
C2_ZeroStepRejected ==
    (Terminated /\ HasZeroStep)
        => /\ pc = "panic"
           /\ Returned = None
           /\ (document # None => document[1].body = None)
           /\ (RectInvariant(Viewport) => result = "InvalidGrid")
           /\ (~RectInvariant(Viewport) => result = "InvalidViewport")

\* a zero step with theta = 270 in second place stops the run after the first
\* grid was projected
C2_Witness ==
    /\ pc = "panic"
    /\ result = "InvalidGrid"
    /\ Len(grids) = 2
    /\ grids[1].step # RInt(0)
    /\ grids[2].step = RInt(0)
    /\ grids[2].theta = RInt(270)
    /\ Len(locals) = 1
    /\ Len(Children) = 1

CoverWindow(k) == (RFloor(QLow(k)) - 2)..(RCeil(QHigh(k)) + 2)

\* C4: for every projected grid, the spacing is positive, every integer line
\* index whose line crosses the effective viewport lies in
\* min_idx..max_idx and its segment is the one emitted at that place, and
\* the emitted segments are those of the consecutive indices
\* min_idx, ..., max_idx.
C4_FullCoverage ==
    \A k \in 1..Len(locals) :
        /\ RLt(RInt(0), locals[k].dp)
        /\ Len(Children[k].lines) = locals[k].max_idx - locals[k].min_idx + 1
        /\ \A i \in CoverWindow(k) :
              Crosses(k, i)
                  => /\ locals[k].min_idx <= i
                     /\ i <= locals[k].max_idx
                     /\ Children[k].lines[i - locals[k].min_idx + 1] = SegmentOf(k, i)

\* a slanted grid whose center lies outside the viewport, so that the value
\* truncated for min_idx is positive and fractional while the one truncated
\* for max_idx is fractional too, with lines crossing the viewport
C4_Witness ==
    /\ pc = "done"
    /\ \E k \in 1..Len(locals) :
          /\ locals[k].p0 # locals[k].p1
          /\ RLt(RInt(1), QLow(k))
          /\ ~IsIntegral(QLow(k))
          /\ ~IsIntegral(QHigh(k))
          /\ \E i \in CoverWindow(k) : Crosses(k, i)

(***************************************************************************)
(* C5  Axis-aligned vertical grid.                                         *)
(***************************************************************************)
\* the x of line i of a grid with theta = 0 and center_position = 0
VerticalX(g, i) == RAdd(g.cx, RMul(RAbs(g.step), RInt(i)))

\* the indices whose x can lie within the viewport, and two beyond each end
VerticalWindow(g) ==
    (RFloor(RDiv(RSub(Viewport.min_x, g.cx), RAbs(g.step))) - 2)
        ..(RCeil(RDiv(RSub(Viewport.max_x, g.cx), RAbs(g.step))) + 2)

ExampleSegments ==
    [j \in 1..7 |-> [x1 |-> RInt(20 * j - 30), x2 |-> RInt(20 * j - 30),
                     y1 |-> RInt(0), y2 |-> RInt(100)]]

\* C5: for a projected grid with theta = 0 and center_position = 0, the
\* segment at place j is vertical at x = cx + |step| * (min_idx + j - 1) from
\* min_y to max_y of the effective viewport, the x are strictly ascending,
\* and every x = cx + |step| * i within [min_x, max_x] is emitted (i = 0, the
\* line through the center, included); the example grid on {0,100,0,100}
\* emits x = -10, 10, 30, 50, 70, 90, 110.
C5_VerticalGrid ==
    \A k \in 1..Len(locals) :
        (grids[k].theta = RInt(0) /\ grids[k].center_position = RInt(0))
            => /\ \A j \in 1..Len(Children[k].lines) :
                     /\ Children[k].lines[j].x1 = VerticalX(grids[k], locals[k].min_idx + j - 1)
                     /\ Children[k].lines[j].x2 = Children[k].lines[j].x1
                     /\ Children[k].lines[j].y1 = Viewport.min_y
                     /\ Children[k].lines[j].y2 = Viewport.max_y
                     /\ (j > 1 => RLt(Children[k].lines[j - 1].x1, Children[k].lines[j].x1))
               /\ \A i \in VerticalWindow(grids[k]) :
                     (RLe(Viewport.min_x, VerticalX(grids[k], i))
                         /\ RLe(VerticalX(grids[k], i), Viewport.max_x))
                         => \E j \in 1..Len(Children[k].lines) :
                               Children[k].lines[j].x1 = VerticalX(grids[k], i)
               /\ ((grids[k] = ExampleGrid /\ Viewport = Rect(0, 100, 0, 100))
                      => Children[k].lines = ExampleSegments)

\* the example of the spec, projected
C5_Witness ==
    /\ pc = "done"
    /\ grids[1] = ExampleGrid
    /\ Viewport = Rect(0, 100, 0, 100)
    /\ Len(Children[1].lines) = 7
    /\ Children[1].lines[4].x1 = grids[1].cx

(***************************************************************************)
(* C6  Clip versus bounds.                                                 *)
(***************************************************************************)
\* C6: the viewBox is (min_x, min_y, width, height) of bounds whatever clip
\* is, the clip rectangle of the document is the effective viewport, and
\* every group is the projection of its grid on the effective viewport (clip
\* when present, bounds otherwise): its segments end on the min/max x edges
\* of that rectangle in the horizontal branch and on its min/max y edges in
\* the vertical branch, and its index range is the one computed from it.
C6_ClipVersusBounds ==
    /\ document # None
          => /\ document[1].viewBox =
                  <<bounds.min_x, bounds.min_y,
                    RSub(bounds.max_x, bounds.min_x), RSub(bounds.max_y, bounds.min_y)>>
             /\ document[1].clip_path.x = Viewport.min_x
             /\ document[1].clip_path.y = Viewport.min_y
             /\ document[1].clip_path.width = RSub(Viewport.max_x, Viewport.min_x)
             /\ document[1].clip_path.height = RSub(Viewport.max_y, Viewport.min_y)
    /\ \A k \in 1..Len(locals) :
          /\ locals[k].min_idx = AsI64(RSub(QLow(k), RInt(1)))
          /\ locals[k].max_idx = AsI64(RAdd(QHigh(k), RInt(1)))
          /\ locals[k] = Locals(grids[k], Viewport)
          /\ \A j \in 1..Len(Children[k].lines) :
                IF locals[k].horizontal
                THEN /\ Children[k].lines[j].x1 = Viewport.min_x
                     /\ Children[k].lines[j].x2 = Viewport.max_x
                ELSE /\ Children[k].lines[j].y1 = Viewport.min_y
                     /\ Children[k].lines[j].y2 = Viewport.max_y

\* a clip smaller than the bounds, with one group of each branch
C6_Witness ==
    /\ pc = "done"
    /\ clip = Some(Rect(20, 60, 10, 50))
    /\ bounds = Rect(0, 100, 0, 100)
    /\ Len(locals) = 2
    /\ locals[1].horizontal
    /\ ~locals[2].horizontal
    /\ Len(Children[1].lines) > 0
    /\ Len(Children[2].lines) > 0

(***************************************************************************)
(* C7  Sign of the step.                                                   *)
(***************************************************************************)
\* C7 (as stated): when the second grid is the first with the step negated,
\* the two groups hold the same set of segments.
C7_StepSignDontCare ==
    (IsNegatedPair /\ pc = "done") => LineSet(1) = LineSet(2)

\* C7 (amended): when the second grid is the first with the step negated and
\* center_position = 0, the two groups hold the same set of segments.
C7_StepSignAtZeroOffset ==
    (IsNegatedPair /\ pc = "done" /\ grids[1].center_position = RInt(0))
        => LineSet(1) = LineSet(2)

\* a negated pair with center_position = 0 on a slanted angle past the half turn
C7_Witness ==
    /\ IsNegatedPair
    /\ pc = "done"
    /\ grids[1].center_position = RInt(0)
    /\ RLe(RInt(180), grids[1].theta)
    /\ locals[1].p0 # locals[1].p1
    /\ Cardinality(LineSet(1)) > 1

(***************************************************************************)
(* C8  Output order.                                                       *)
(***************************************************************************)
\* the coordinate of a segment along the axis the lines are stepped on
SteppedFirst(k, j) ==
    IF locals[k].horizontal THEN Children[k].lines[j].y1 ELSE Children[k].lines[j].x1
SteppedSecond(k, j) ==
    IF locals[k].horizontal THEN Children[k].lines[j].y2 ELSE Children[k].lines[j].x2

\* C8: there is one group per grid projected so far and, when the document is
\* returned, one per input grid, group k being the one of grid k; in each
\* group the segments are those of i = min_idx, ..., max_idx, once each and in
\* that order, there is at least one, and both endpoints increase strictly
\* along the stepped axis.
C8_OutputOrder ==
    /\ Len(Children) = Len(locals)
    /\ (pc = "loop" => Len(Children) = idx - 1)
    /\ (pc = "done" => /\ Len(Children) = Len(grids)
                       /\ document[1].body = main_group)
    /\ \A k \in 1..Len(Children) :
          /\ locals[k] = Locals(grids[k], Viewport)
          /\ Children[k].stroke = grids[k].stroke
          /\ Children[k].stroke_width = grids[k].stroke_width
          /\ locals[k].min_idx <= locals[k].max_idx
          /\ Len(Children[k].lines) = locals[k].max_idx - locals[k].min_idx + 1
          /\ \A j \in 1..Len(Children[k].lines) :
                /\ Children[k].lines[j] = SegmentOf(k, locals[k].min_idx + j - 1)
                /\ j > 1 => /\ RLt(SteppedFirst(k, j - 1), SteppedFirst(k, j))
                            /\ RLt(SteppedSecond(k, j - 1), SteppedSecond(k, j))

\* two different grids, returned in input order
C8_Witness ==
    /\ pc = "done"
    /\ Len(grids) = 2
    /\ grids[1] # grids[2]
    /\ Children[1].lines # Children[2].lines
    /\ Len(Children[1].lines) > 1
    /\ Len(Children[2].lines) > 1

(***************************************************************************)
(* C9  Style fallback.                                                     *)
(***************************************************************************)
\* the attribute a group's segments inherit: its own, else the main group's
StrokeInEffect(k) ==
    IF Children[k].stroke # None THEN Children[k].stroke[1] ELSE main_group[1].stroke
StrokeWidthInEffect(k) ==
    IF Children[k].stroke_width # None THEN Children[k].stroke_width
    ELSE main_group[1].stroke_width

\* C9: for every group, the stroke in effect is the grid's if set, else the
\* collection's if set, else "black", and the stroke width in effect is the
\* grid's if set, else the collection's if set, else none at all; each group
\* depends on its own grid only.
C9_StyleFallback ==
    \A k \in 1..Len(Children) :
        /\ StrokeInEffect(k) =
              (IF grids[k].stroke # None THEN grids[k].stroke[1]
               ELSE IF stroke # None THEN stroke[1] ELSE "black")
        /\ StrokeWidthInEffect(k) =
              (IF grids[k].stroke_width # None THEN grids[k].stroke_width
               ELSE IF stroke_width # None THEN stroke_width ELSE None)

\* a grid with its own stroke next to one without, under a collection default
C9_Witness ==
    /\ pc = "done"
    /\ Len(grids) = 2
    /\ stroke = Some("red")
    /\ stroke_width = None
    /\ grids[1].stroke = Some("blue")
    /\ grids[1].stroke_width = None
    /\ grids[2].stroke = None
    /\ grids[2].stroke_width = Some(RInt(3))
    /\ StrokeInEffect(1) = "blue"
    /\ StrokeInEffect(2) = "red"

(***************************************************************************)
(* C10  Index range formula.                                               *)
(***************************************************************************)
\* C10 (as stated): for every projected grid,
\* min_idx = floor(qlow) - 1 and max_idx = ceil(qhigh) + 1.
C10_FloorCeilMargin ==
    \A k \in 1..Len(locals) :
        /\ locals[k].min_idx = RFloor(QLow(k)) - 1
        /\ locals[k].max_idx = RCeil(QHigh(k)) + 1

\* C10 (amended): for every projected grid, min_idx is qlow - 1 truncated
\* toward zero: floor(qlow) - 1 when qlow >= 1 or qlow is integral, and
\* floor(qlow) otherwise; max_idx is qhigh + 1 truncated toward zero:
\* ceil(qhigh) + 1 when qhigh <= -1 or qhigh is integral, and ceil(qhigh)
\* otherwise.
C10_TruncatedMargin ==
    \A k \in 1..Len(locals) :
        /\ locals[k].min_idx =
              (IF RLe(RInt(1), QLow(k)) \/ IsIntegral(QLow(k))
               THEN RFloor(QLow(k)) - 1 ELSE RFloor(QLow(k)))
        /\ locals[k].max_idx =
              (IF RLe(QHigh(k), RInt(-1)) \/ IsIntegral(QHigh(k))
               THEN RCeil(QHigh(k)) + 1 ELSE RCeil(QHigh(k)))

\* fractional quotients on both sides of the viewport of one grid
C10_Witness ==
    /\ pc = "done"
    /\ \E k \in 1..Len(locals) :
          /\ RLt(QLow(k), RInt(0))
          /\ ~IsIntegral(QLow(k))
          /\ RLt(RInt(0), QHigh(k))
          /\ ~IsIntegral(QHigh(k))
          /\ locals[k].min_idx = RFloor(QLow(k))
          /\ locals[k].max_idx = RCeil(QHigh(k))

====
